---- MODULE Spec2Model ----
(***************************************************************************)
(* State-machine model of the retrieval-and-ranking engine of              *)
(* rag-text-summarizer: the statistical and the graph-ranking sentence     *)
(* summarizers (src/src/algorithms), the embedding provider, the vector    *)
(* retriever and the RAG pipeline (src/src/rag).                           *)
(*                                                                         *)
(* A text is a sequence of tokens: a word, a whitespace character (" " or  *)
(* "\n") or the sentence terminator ".".  A sentence is the token sequence *)
(* of one sentence, its terminator included.                               *)
(***************************************************************************)
EXTENDS Integers, Sequences, FiniteSets, TLC

VARIABLES
    doc,          \* the document handed to the summarizer under test
    cls,          \* class of the summarizer under test
    method,       \* StatisticalSummarizer.method
    stop_words,   \* StatisticalSummarizer.stop_words
    algorithm,    \* ExtractiveSummarizer.algorithm
    last,         \* record of the latest summarize call
    prev,         \* record of an earlier summarize call, kept for comparison
    batch,        \* record of the latest summarize_batch call
    model_name,   \* EmbeddingModel.model_name
    model,        \* EmbeddingModel.model
    index,        \* VectorRetriever.index
    documents,    \* VectorRetriever.documents
    metadata,     \* VectorRetriever.metadata
    retriever,    \* RAGPipeline.retriever
    result,       \* what the latest constructor or call on the provider, retriever or pipeline did
    building,     \* the build_index call in progress on the retriever, line by line
    indexing      \* the index_documents call in progress on the pipeline, line by line

sumVars == <<doc, cls, method, stop_words, algorithm, last, prev, batch>>

ragVars == <<model_name, model, index, documents, metadata, retriever, result, building, indexing>>

\* the calls in progress
stepVars == <<building, indexing>>

vars == <<sumVars, ragVars>>

----------------------------------------------------------------------------
(* Bounds of the model. *)

\* longest document, in sentences
MaxSent == 3

\* largest num_sentences asked for
MaxK == 4

\* longest document list handed to build_index, and longest metadata list
MaxDocs == 2

\* largest top_k asked for
MaxTopK == 3

----------------------------------------------------------------------------
(* The vocabulary of the modelled texts. *)

Whitespace == {" ", "\n"}

WordList == <<"ai", "data", "the">>

Words == {WordList[j] : j \in 1..Len(WordList)}

\* "the" is in nltk's English stop-word list and in scikit-learn's.
EnglishStopWords == {"the"}

\* the word sequences a sentence of an input document is made of
SentenceBodies == {<<"ai">>, <<"ai", "data">>, <<"the">>}

\* extra whitespace put around the tokens of an input document
Paddings == {<<>>, <<"\n">>}

Range(s) == {s[j] : j \in 1..Len(s)}

RECURSIVE SeqSum(_)
SeqSum(s) == IF s = <<>> THEN 0 ELSE Head(s) + SeqSum(Tail(s))

RECURSIVE Flatten(_, _)
\* the members of ss, with sep between each two
Flatten(ss, sep) ==
    IF ss = <<>> THEN <<>>
    ELSE IF Len(ss) = 1 THEN Head(ss)
    ELSE Head(ss) \o sep \o Flatten(Tail(ss), sep)

\* the text of a document whose sentences are made of the word sequences bodies:
\* pad follows every separating blank and surrounds the text
Render(bodies, pad) ==
    LET gap == <<" ">> \o pad
        sentence(b) == Flatten([j \in 1..Len(b) |-> <<b[j]>>], gap) \o <<".">>
    IN  pad \o Flatten([j \in 1..Len(bodies) |-> sentence(bodies[j])], gap) \o pad

BodySeqs == UNION {[1..n -> SentenceBodies] : n \in 0..MaxSent}

InputTexts == {Render(b, p) : b \in BodySeqs, p \in Paddings}

----------------------------------------------------------------------------
(* Text helpers of the summarizers. *)

\* `not text or not text.strip()`
IsBlank(text) == \A j \in 1..Len(text) : text[j] \in Whitespace

RECURSIVE SkipWhitespace(_)
SkipWhitespace(t) ==
    IF t # <<>> /\ Head(t) \in Whitespace THEN SkipWhitespace(Tail(t)) ELSE t

RECURSIVE CollapseWhitespace(_)
\* re.sub(r'\s+', ' ', text)
CollapseWhitespace(t) ==
    IF t = <<>> THEN <<>>
    ELSE IF Head(t) \in Whitespace
         THEN <<" ">> \o CollapseWhitespace(SkipWhitespace(t))
         ELSE <<Head(t)>> \o CollapseWhitespace(Tail(t))

RECURSIVE StripRight(_)
StripRight(t) ==
    IF t # <<>> /\ t[Len(t)] \in Whitespace
    THEN StripRight(SubSeq(t, 1, Len(t) - 1)) ELSE t

\* str.strip()
Strip(t) == StripRight(SkipWhitespace(t))

\* the text stripped, its inner whitespace left as it is
PreprocessStripOnly(text) == Strip(text)

_preprocess_text(text) == Strip(CollapseWhitespace(text))

RECURSIVE SplitSentences(_, _)
\* cur is the sentence being read; a "." ends it and the blanks after are dropped
SplitSentences(t, cur) ==
    IF t = <<>> THEN (IF cur = <<>> THEN <<>> ELSE <<cur>>)
    ELSE IF Head(t) = "."
         THEN <<cur \o <<".">>>> \o SplitSentences(SkipWhitespace(Tail(t)), <<>>)
         ELSE SplitSentences(Tail(t), cur \o <<Head(t)>>)

\* nltk's sent_tokenize
sent_tokenize(text) == SplitSentences(SkipWhitespace(text), <<>>)

\* " ".join(parts)
JoinSpace(parts) == Flatten(parts, <<" ">>)

\* the words of a text that are alphanumeric and no stop word
ContentWords(t, stops) == SelectSeq(t, LAMBDA w : w \in Words /\ w \notin stops)

Count(t, w) == Len(SelectSeq(t, LAMBDA x : x = w))

----------------------------------------------------------------------------
(* Sentence scores.  A score is a pair <<s, q>> standing for the number    *)
(* s / sqrt(q), s >= 0, q > 0, so that sums of l2-normalised weights and   *)
(* of normalised frequencies are compared without rounding.                *)

ZeroScore == <<0, 1>>

\* a > b as numbers
ScoreGT(a, b) == a[1] * a[1] * b[2] > b[1] * b[1] * a[2]

ScoreEQ(a, b) == a[1] * a[1] * b[2] = b[1] * b[1] * a[2]

\* scikit-learn's smoothed idf, ln((1 + n) / (1 + df)) + 1, in tenths
Idf10(n, df) ==
    LET table == << <<10>>,
                    <<14, 10>>,
                    <<17, 13, 10>>,
                    <<19, 15, 12, 10>>,
                    <<21, 17, 14, 12, 10>>,
                    <<23, 18, 16, 13, 12, 10>>,
                    <<24, 20, 17, 15, 13, 11, 10>> >>
    IN  table[n][df]

\* the sum of the row of sentence i in the l2-normalised TF-IDF matrix
TfidfRowSum(sentences, i) ==
    LET n == Len(sentences)
        terms(j) == ContentWords(sentences[j], EnglishStopWords)
        df(w) == Cardinality({j \in 1..n : w \in Range(terms(j))})
        weight(w) == IF Count(terms(i), w) = 0 THEN 0
                     ELSE Count(terms(i), w) * Idf10(n, df(w))
        s == SeqSum([x \in 1..Len(WordList) |-> weight(WordList[x])])
        q == SeqSum([x \in 1..Len(WordList) |-> weight(WordList[x]) * weight(WordList[x])])
    IN  IF q = 0 THEN ZeroScore ELSE <<s, q>>

\* StatisticalSummarizer._calculate_sentence_scores_tfidf
_calculate_sentence_scores_tfidf(sentences) ==
    LET n == Len(sentences)
        vocabulary == UNION {Range(ContentWords(sentences[j], EnglishStopWords)) : j \in 1..n}
    IN  IF vocabulary = {}
        THEN [i \in 1..n |-> ZeroScore]     \* fit_transform raised ValueError
        ELSE [i \in 1..n |-> TfidfRowSum(sentences, i)]

\* StatisticalSummarizer._calculate_sentence_scores_frequency
_calculate_sentence_scores_frequency(stops, text, sentences) ==
    LET words == ContentWords(text, stops)
        freq(w) == Count(words, w)
        counts == {freq(w) : w \in Range(words)}
        max_freq == IF counts = {} THEN 1 ELSE CHOOSE c \in counts : \A d \in counts : d <= c
        score(i) == LET ws == ContentWords(sentences[i], stops)
                    IN  SeqSum([x \in 1..Len(ws) |-> freq(ws[x])])
    IN  [i \in 1..Len(sentences) |-> <<score(i), max_freq * max_freq>>]

RECURSIVE InsertDescendingTiesFirst(_, _, _)
\* i put before the indices of equal score: a sort that turns equal scores round
InsertDescendingTiesFirst(order, i, scores) ==
    IF order = <<>> THEN <<i>>
    ELSE IF ~ScoreGT(scores[Head(order)], scores[i])
         THEN <<i>> \o order
         ELSE <<Head(order)>> \o InsertDescendingTiesFirst(Tail(order), i, scores)

RECURSIVE InsertDescending(_, _, _)
\* i put after every index whose score is not smaller than its own
InsertDescending(order, i, scores) ==
    IF order = <<>> THEN <<i>>
    ELSE IF ScoreGT(scores[i], scores[Head(order)])
         THEN <<i>> \o order
         ELSE <<Head(order)>> \o InsertDescending(Tail(order), i, scores)

RECURSIVE SortedByScore(_, _)
\* sorted(scores, key=scores.get, reverse=True): the indices 1..n by descending
\* score, equal scores in ascending index order (the sort is stable)
SortedByScore(scores, n) ==
    IF n = 0 THEN <<>> ELSE InsertDescending(SortedByScore(scores, n - 1), n, scores)

RECURSIVE InsertAscending(_, _)
InsertAscending(order, i) ==
    IF order = <<>> THEN <<i>>
    ELSE IF i < Head(order) THEN <<i>> \o order
         ELSE <<Head(order)>> \o InsertAscending(Tail(order), i)

RECURSIVE SortedAscending(_)
\* sorted(top_indices)
SortedAscending(s) ==
    IF s = <<>> THEN <<>> ELSE InsertAscending(SortedAscending(Tail(s)), Head(s))

\* the slice taken from the wrong end: s[k:]
TakeFromEnd(s, k) == SubSeq(s, (IF k < Len(s) THEN k ELSE Len(s)) + 1, Len(s))

\* the first k members of s: s[:k]
Take(s, k) == SubSeq(s, 1, IF k < Len(s) THEN k ELSE Len(s))

----------------------------------------------------------------------------
(* What a summarize call did: the text it returned or the exception it     *)
(* raised, whether it scored the sentences, and the sentence indices it    *)
(* chose, in the order it emitted them.                                    *)

Returned(text, ranked, top) ==
    [out |-> text, raised |-> "none", ranked |-> ranked, top |-> top]

\* top_indices left in rank order: the second sort forgotten
TopIndicesRankOrder(sentence_scores, num_sentences) ==
    Take(SortedByScore(sentence_scores, Len(sentence_scores)), num_sentences)

\* top_indices never cut to num_sentences
TopIndicesUncut(sentence_scores, num_sentences) ==
    SortedAscending(SortedByScore(sentence_scores, Len(sentence_scores)))

\* top_indices of StatisticalSummarizer.summarize, after its two sorts
TopIndices(sentence_scores, num_sentences) ==
    SortedAscending(Take(SortedByScore(sentence_scores, Len(sentence_scores)), num_sentences))

\* StatisticalSummarizer.summarize
StatisticalSummarize(m, stops, text, num_sentences) ==
    IF IsBlank(text) THEN Returned(<<>>, FALSE, <<>>)
    ELSE LET t == _preprocess_text(text)
             sentences == sent_tokenize(t)
             sentence_scores ==
                 IF m = "tfidf" THEN _calculate_sentence_scores_tfidf(sentences)
                 ELSE _calculate_sentence_scores_frequency(stops, t, sentences)
             top_indices == TopIndices(sentence_scores, num_sentences)
         IN  IF Len(sentences) <= num_sentences
             THEN Returned(t, FALSE, [i \in 1..Len(sentences) |-> i])
             ELSE Returned(JoinSpace([x \in 1..Len(top_indices) |-> sentences[top_indices[x]]]),
                           TRUE, top_indices)

\* a batch that leaves the empty summaries out
StatisticalSummarizeBatchNonEmpty(m, stops, texts, num_sentences) ==
    SelectSeq([x \in 1..Len(texts) |-> StatisticalSummarize(m, stops, texts[x], num_sentences).out],
              LAMBDA o : o # <<>>)

\* StatisticalSummarizer.summarize_batch
StatisticalSummarizeBatch(m, stops, texts, num_sentences) ==
    [x \in 1..Len(texts) |-> StatisticalSummarize(m, stops, texts[x], num_sentences).out]

----------------------------------------------------------------------------
(* The graph-ranking summarizer.  It hands the parsed document to sumy,    *)
(* which rates every sentence, keeps the num_sentences best rated and      *)
(* returns them in document order.                                         *)

\* PlaintextParser.from_string(text, Tokenizer("english")).document.sentences
ParseDocument(text) == sent_tokenize(_preprocess_text(text))

\* the rating of sentence i: the content words it shares with the other sentences
\* (its weighted degree in the sentence graph)
SentenceRating(sentences, i) ==
    LET ws(j) == Range(ContentWords(sentences[j], EnglishStopWords))
    IN  <<SeqSum([j \in 1..Len(sentences) |->
                     IF j = i THEN 0 ELSE Cardinality(ws(i) \cap ws(j))]), 1>>

\* self.summarizer(parser.document, num_sentences): the indices sumy returns
SumySelect(sentences, num_sentences) ==
    LET rating == [i \in 1..Len(sentences) |-> SentenceRating(sentences, i)]
    IN  SortedAscending(Take(SortedByScore(rating, Len(sentences)), num_sentences))

\* ExtractiveSummarizer.summarize
ExtractiveSummarize(alg, text, num_sentences) ==
    IF IsBlank(text) THEN Returned(<<>>, FALSE, <<>>)
    ELSE LET sentences == ParseDocument(text)
             summary_sentences == SumySelect(sentences, num_sentences)
         IN  Returned(JoinSpace([x \in 1..Len(summary_sentences) |->
                                    sentences[summary_sentences[x]]]),
                      TRUE, summary_sentences)

\* ExtractiveSummarizer.summarize_batch
ExtractiveSummarizeBatch(alg, texts, num_sentences) ==
    [x \in 1..Len(texts) |-> ExtractiveSummarize(alg, texts[x], num_sentences).out]

----------------------------------------------------------------------------
(* The summarizer under test and the calls made on it. *)

Call(text, k, r) ==
    [input |-> text, k |-> k, out |-> r.out, raised |-> r.raised,
     ranked |-> r.ranked, top |-> r.top]

NoCall == Call(<<>>, 0, Returned(<<>>, FALSE, <<>>))

NoBatch == [texts |-> <<>>, k |-> 0, outs |-> <<>>]

\* a summarize that uses up the stop words it meets in the text
StatSummarizeCallStateful(text, num_sentences) ==
    /\ cls = "StatisticalSummarizer"
    /\ last' = Call(text, num_sentences,
                    StatisticalSummarize(method, stop_words, text, num_sentences))
    /\ stop_words' = stop_words \ Range(text)
    /\ UNCHANGED <<doc, cls, method, algorithm, prev, batch>>
    /\ UNCHANGED ragVars

\* summarizer.summarize(text, num_sentences) on a StatisticalSummarizer
StatSummarizeCall(text, num_sentences) ==
    /\ cls = "StatisticalSummarizer"
    /\ last' = Call(text, num_sentences,
                    StatisticalSummarize(method, stop_words, text, num_sentences))
    /\ UNCHANGED <<doc, cls, method, stop_words, algorithm, prev, batch>>
    /\ UNCHANGED ragVars

\* summarizer.summarize(text, num_sentences) on an ExtractiveSummarizer
ExtSummarizeCall(text, num_sentences) ==
    /\ cls = "ExtractiveSummarizer"
    /\ last' = Call(text, num_sentences,
                    ExtractiveSummarize(algorithm, text, num_sentences))
    /\ UNCHANGED <<doc, cls, method, stop_words, algorithm, prev, batch>>
    /\ UNCHANGED ragVars

\* summarizer.summarize_batch(texts, num_sentences)
SummarizeBatchCall(texts, num_sentences) ==
    /\ batch' = [texts |-> texts, k |-> num_sentences,
                 outs |-> IF cls = "StatisticalSummarizer"
                          THEN StatisticalSummarizeBatch(method, stop_words, texts, num_sentences)
                          ELSE ExtractiveSummarizeBatch(algorithm, texts, num_sentences)]
    /\ UNCHANGED <<doc, cls, method, stop_words, algorithm, last, prev>>
    /\ UNCHANGED ragVars

\* the caller keeps the latest summary of the document to compare a later one with
Remember ==
    /\ last.k > 0
    /\ last.input = doc
    /\ prev # last
    /\ prev' = last
    /\ UNCHANGED <<doc, cls, method, stop_words, algorithm, last, batch>>
    /\ UNCHANGED ragVars

\* a second text to call the summarizer with: the document without its first sentence
OtherText(text) ==
    LET sentences == sent_tokenize(_preprocess_text(text))
    IN  IF sentences = <<>> THEN <<>> ELSE JoinSpace(Tail(sentences))

\* the lists a batch is called with: texts a and b in both orders
BatchLists(a, b) == {<<>>, <<a, b>>, <<b, a, b>>}

----------------------------------------------------------------------------
(* The embedding provider, the vector retriever and the pipeline.          *)

\* Python's None and a value that is not None, for a field that may hold either
None == <<>>

Some(x) == <<x>>

TheValue(opt) == opt[1]

\* the texts the indexed documents and the queries are taken from
Corpus == {<<"ai", ".">>, <<"data", ".">>}

Queries == {<<"ai">>, <<"ai", " ", "data">>}

\* a metadata dict
Meta == [title |-> "t"]

EmptyDict == [title |-> ""]

\* the embedding models a provider is constructed with; the first is the default
DefaultModelName == "all-MiniLM-L6-v2"

ModelNames == {DefaultModelName, "all-mpnet-base-v2"}

\* self.model.encode(text): the embedding of a text, here its word counts, in as
\* many dimensions as the loaded model has
Encode(text) ==
    IF model = DefaultModelName THEN <<Count(text, "ai"), Count(text, "data")>>
    ELSE <<Count(text, "ai"), Count(text, "data"), Count(text, "the")>>

\* faiss.IndexFlatL2(dimension) after add(embeddings)
IndexFlatL2(embeddings) == [d |-> Len(embeddings[1]), xb |-> embeddings]

\* the squared L2 distance faiss reports
L2(u, v) == SeqSum([x \in 1..Len(u) |-> (u[x] - v[x]) * (u[x] - v[x])])

Raised(op, exc) == [op |-> op, raised |-> exc, value |-> <<>>, args |-> <<>>]

\* the ValueErrors the code raises, by their messages
EmptyCorpus == "ValueError: Cannot build index from empty document list"

NotBuilt == "ValueError: Index not built. Call build_index() first."

NotReady == "ValueError: Model not loaded. Call load_model() first."

Value(op, v) == [op |-> op, raised |-> "none", value |-> v, args |-> <<>>]

NoResult == Value("none", <<>>)

\* VectorRetriever.__init__
NewRetriever == [index |-> None, documents |-> <<>>, metadata |-> <<>>]

\* no build_index call in progress
NoBuild == [pc |-> 0, docs |-> <<>>, meta |-> None, embeddings |-> <<>>, old |-> NewRetriever]

\* no index_documents call in progress
NoIndexing ==
    [pc |-> 0, docs |-> <<>>, meta |-> None, embeddings |-> <<>>, local |-> NewRetriever,
     old |-> None]

RagIdle ==
    /\ model_name = DefaultModelName
    /\ building = NoBuild
    /\ indexing = NoIndexing
    /\ model = "None"
    /\ index = None
    /\ documents = <<>>
    /\ metadata = <<>>
    /\ retriever = None
    /\ result = NoResult

SumIdle ==
    /\ doc = <<>>
    /\ cls = "none"
    /\ method = "none"
    /\ stop_words = {}
    /\ algorithm = "none"
    /\ last = NoCall
    /\ prev = NoCall
    /\ batch = NoBatch

\* EmbeddingModel.load_model; its result lists the models it loaded, each load a
\* new SentenceTransformer
load_model ==
    /\ model' = model_name
    /\ result' = Value("load_model", <<model_name>>)
    /\ UNCHANGED <<model_name, index, documents, metadata, retriever>>
    /\ UNCHANGED stepVars
    /\ UNCHANGED sumVars

\* the provider's model_name is set to another model's (a provider swap), for the
\* next load_model to load
SetModelName ==
    /\ \E name \in ModelNames \ {model_name} : model_name' = name
    /\ result' = Value("model_name", <<>>)
    /\ UNCHANGED <<model, index, documents, metadata, retriever>>
    /\ UNCHANGED stepVars
    /\ UNCHANGED sumVars

\* EmbeddingModel.embed_text without its check of the model
EmbedTextOutcomeUnchecked(text) ==
    IF model = "None" THEN Raised("embed_text", "AttributeError")
    ELSE Value("embed_text", Encode(text))

\* EmbeddingModel.embed_text
EmbedTextOutcome(text) ==
    IF model = "None" THEN Raised("embed_text", NotReady)
    ELSE Value("embed_text", Encode(text))

\* EmbeddingModel.embed_batch
EmbedBatchOutcome(texts) ==
    IF model = "None" THEN Raised("embed_batch", NotReady)
    ELSE Value("embed_batch", [x \in 1..Len(texts) |-> Encode(texts[x])])

\* EmbeddingModel.get_embedding_dimension
GetEmbeddingDimensionOutcome ==
    IF model = "None" THEN Raised("get_embedding_dimension", NotReady)
    ELSE Value("get_embedding_dimension", Len(Encode(<<>>)))

embed_text(text) ==
    /\ result' = [EmbedTextOutcome(text) EXCEPT !.args = <<text>>]
    /\ UNCHANGED <<model_name, model, index, documents, metadata, retriever>>
    /\ UNCHANGED stepVars
    /\ UNCHANGED sumVars

embed_batch(texts) ==
    /\ result' = [EmbedBatchOutcome(texts) EXCEPT !.args = <<texts>>]
    /\ UNCHANGED <<model_name, model, index, documents, metadata, retriever>>
    /\ UNCHANGED stepVars
    /\ UNCHANGED sumVars

get_embedding_dimension ==
    /\ result' = GetEmbeddingDimensionOutcome
    /\ UNCHANGED <<model_name, model, index, documents, metadata, retriever>>
    /\ UNCHANGED stepVars
    /\ UNCHANGED sumVars

\* `metadata if metadata else [{} for _ in documents]`
MetadataOrDefault(docs, meta) ==
    IF meta = None \/ TheValue(meta) = <<>> THEN [x \in 1..Len(docs) |-> EmptyDict]
    ELSE TheValue(meta)

\* a build_index that stores the documents and the metadata before it looks at them
BuildIndexOutcomeLateCheck(r, docs, meta) ==
    LET stored == [r EXCEPT !.documents = docs,
                            !.metadata = MetadataOrDefault(docs, meta)]
    IN  IF docs = <<>> THEN [after |-> stored, raised |-> EmptyCorpus]
        ELSE IF model = "None" THEN [after |-> stored, raised |-> NotReady]
        ELSE [after |-> [stored EXCEPT !.index =
                            Some(IndexFlatL2([x \in 1..Len(docs) |-> Encode(docs[x])]))],
              raised |-> "none"]

\* the retriever a build_index(docs, meta) call leaves, given the retriever
\* r = [index, documents, metadata] it starts from, and the exception it raises
BuildIndexOutcome(r, docs, meta) ==
    IF docs = <<>>
    THEN [after |-> r, raised |-> EmptyCorpus]
    ELSE LET stored == [r EXCEPT !.documents = docs,
                                 !.metadata = MetadataOrDefault(docs, meta)]
         IN  IF model = "None"
             THEN [after |-> stored, raised |-> NotReady]      \* embed_batch raised
             ELSE [after |-> [stored EXCEPT !.index =
                                 Some(IndexFlatL2([x \in 1..Len(docs) |-> Encode(docs[x])]))],
                   raised |-> "none"]

ThisRetriever == [index |-> index, documents |-> documents, metadata |-> metadata]

\* VectorRetriever.build_index
build_index(docs, meta) ==
    LET o == BuildIndexOutcome(ThisRetriever, docs, meta)
    IN  /\ index' = o.after.index
        /\ documents' = o.after.documents
        /\ metadata' = o.after.metadata
        /\ result' = [op |-> "build_index", raised |-> o.raised, value |-> <<docs, meta>>,
                       args |-> <<>>]
        /\ UNCHANGED <<model_name, model, retriever>>
        /\ UNCHANGED stepVars
        /\ UNCHANGED sumVars

\* VectorRetriever.get_index_stats
IndexStats(r) ==
    IF r.index = None THEN [status |-> "not_built"]
    ELSE [status |-> "ready", num_vectors |-> Len(TheValue(r.index).xb),
          dimension |-> TheValue(r.index).d, num_documents |-> Len(r.documents)]

get_index_stats ==
    /\ result' = Value("get_index_stats", IndexStats(ThisRetriever))
    /\ UNCHANGED <<model_name, model, index, documents, metadata, retriever>>
    /\ UNCHANGED stepVars
    /\ UNCHANGED sumVars

\* the label sequences index.search(query, k) may return: the k nearest stored
\* vectors, nearest first, vectors at equal distance in any order, and the label
\* -1 in the places no vector is left for
SearchLabels(ix, q, k) ==
    LET n == Len(ix.xb)
        found == IF k < n THEN k ELSE n
        dist(j) == L2(ix.xb[j], q)
    IN  {lab \in [1..k -> (1..n) \cup {-1}] :
            /\ \A x \in 1..k : (lab[x] = -1) <=> (x > found)
            /\ \A x, y \in 1..found : x < y => lab[x] # lab[y] /\ dist(lab[x]) <= dist(lab[y])
            /\ \A x \in 1..found : \A j \in 1..n :
                   j \notin {lab[y] : y \in 1..found} => dist(lab[x]) <= dist(j)}

\* a similarity that is the distance itself
SimilarityIsDistance(ix, q, label) ==
    IF label = -1 THEN <<0, 1>> ELSE <<L2(ix.xb[label], q), 1>>

\* the similarity 1 / (1 + dist) as the fraction <<1, 1 + dist>>; the distance of
\* a place with label -1 is infinite and its similarity 0
Similarity(ix, q, label) ==
    IF label = -1 THEN <<0, 1>> ELSE <<1, 1 + L2(ix.xb[label], q)>>

\* a Python list indexed with the label faiss gave: label j is index j - 1, and
\* label -1 is index -1, the last member
PyIndex(list, label) == IF label = -1 THEN Len(list) ELSE label

\* what retrieve(query, top_k) on retriever r does when index.search returns labels
RetrieveOutcome(r, query, labels) ==
    LET kept == SelectSeq(labels, LAMBDA l : l = -1 \/ l <= Len(r.documents))
    IN  IF \E x \in 1..Len(kept) : PyIndex(r.metadata, kept[x]) \notin 1..Len(r.metadata)
                                   \/ PyIndex(r.documents, kept[x]) \notin 1..Len(r.documents)
        THEN Raised("retrieve", "IndexError")
        ELSE Value("retrieve",
                   [x \in 1..Len(kept) |->
                       [text |-> r.documents[PyIndex(r.documents, kept[x])],
                        similarity |-> Similarity(TheValue(r.index), Encode(query), kept[x]),
                        metadata |-> r.metadata[PyIndex(r.metadata, kept[x])]]])

\* a retrieve that takes stored documents for a built index
RetrieveOutcomesDocumentsGuard(r, query, top_k) ==
    IF r.documents = <<>> THEN {Raised("retrieve", NotBuilt)}
    ELSE IF model = "None" THEN {Raised("retrieve", NotReady)}
    ELSE IF r.index = None THEN {Raised("retrieve", "AttributeError")}
    ELSE IF Len(Encode(query)) # TheValue(r.index).d THEN {Raised("retrieve", "AssertionError")}
    ELSE LET k == IF top_k < Len(r.documents) THEN top_k ELSE Len(r.documents)
         IN  {RetrieveOutcome(r, query, labels) : labels \in SearchLabels(TheValue(r.index), Encode(query), k)}

\* the outcomes of VectorRetriever.retrieve on retriever r
RetrieveOutcomes(r, query, top_k) ==
    IF r.index = None THEN {Raised("retrieve", NotBuilt)}
    ELSE IF model = "None" THEN {Raised("retrieve", NotReady)}     \* embed_text raised
    ELSE IF Len(Encode(query)) # TheValue(r.index).d
         THEN {Raised("retrieve", "AssertionError")}                \* faiss: assert d == self.d
    ELSE LET k == IF top_k < Len(r.documents) THEN top_k ELSE Len(r.documents)
         IN  {RetrieveOutcome(r, query, labels) : labels \in SearchLabels(TheValue(r.index), Encode(query), k)}

\* a retrieve that adds the query's vector to the index it searched
retrieveAddingQuery(query, top_k) ==
    /\ result' \in {[o EXCEPT !.args = <<query, top_k>>] :
                        o \in RetrieveOutcomes(ThisRetriever, query, top_k)}
    /\ index' = IF result'.raised = "none"
                THEN Some([TheValue(index) EXCEPT !.xb = @ \o <<Encode(query)>>])
                ELSE index
    /\ UNCHANGED <<model_name, model, documents, metadata, retriever>>
    /\ UNCHANGED stepVars
    /\ UNCHANGED sumVars

\* VectorRetriever.retrieve
retrieve(query, top_k) ==
    /\ result' \in {[o EXCEPT !.args = <<query, top_k>>] :
                        o \in RetrieveOutcomes(ThisRetriever, query, top_k)}
    /\ UNCHANGED <<model_name, model, index, documents, metadata, retriever>>
    /\ UNCHANGED stepVars
    /\ UNCHANGED sumVars

\* an index_documents that drops the retriever it has before it builds the new one
index_documentsDropFirst(docs, meta) ==
    LET o == BuildIndexOutcome(NewRetriever, docs, meta)
    IN  /\ retriever' = IF o.raised = "none" THEN Some(o.after) ELSE None
        /\ result' = [op |-> "index_documents", raised |-> o.raised, value |-> <<docs, meta>>,
                       args |-> <<>>]
        /\ UNCHANGED <<model_name, model, index, documents, metadata>>
        /\ UNCHANGED stepVars
        /\ UNCHANGED sumVars

\* RAGPipeline.index_documents, with create_retriever
index_documents(docs, meta) ==
    LET o == BuildIndexOutcome(NewRetriever, docs, meta)
    IN  /\ retriever' = IF o.raised = "none" THEN Some(o.after) ELSE retriever
        /\ result' = [op |-> "index_documents", raised |-> o.raised, value |-> <<docs, meta>>,
                       args |-> <<>>]
        /\ UNCHANGED <<model_name, model, index, documents, metadata>>
        /\ UNCHANGED stepVars
        /\ UNCHANGED sumVars

\* the ValueError of a pipeline that has no retriever
NotIndexed == "ValueError: Documents not indexed. Call index_documents() first."

\* the pipeline's two summarizers, as RAGPipeline.__init__ constructs them
PipelineExtractive(text, num_sentences) ==
    ExtractiveSummarize("textrank", text, num_sentences).out

PipelineStatistical(text, num_sentences) ==
    StatisticalSummarize("tfidf", EnglishStopWords, text, num_sentences).out

\* the retrieved texts joined last one first
CombinedTextReversed(results) ==
    JoinSpace([x \in 1..Len(results) |-> results[Len(results) + 1 - x].text])

\* `" ".join(retrieved_texts)`
CombinedText(results) == JoinSpace([x \in 1..Len(results) |-> results[x].text])

\* a list of the nearest document only
RetrievedDocumentsNearestOnly(results) ==
    [x \in 1..(IF Len(results) > 1 THEN 1 ELSE Len(results)) |->
        [text |-> results[x].text, similarity |-> results[x].similarity,
         metadata |-> results[x].metadata]]

\* `[{"text": doc, "similarity": score, "metadata": meta} for doc, score, meta in results]`
RetrievedDocuments(results) ==
    [x \in 1..Len(results) |->
        [text |-> results[x].text, similarity |-> results[x].similarity,
         metadata |-> results[x].metadata]]

\* a query_and_summarize that goes to the retriever without looking at it first
QueryAndSummarizeOutcomesUnguarded(p, query, top_k, num_sentences, summarization_method) ==
    IF p = None THEN {Raised("query_and_summarize", "AttributeError")}
    ELSE {IF o.raised # "none" THEN Raised("query_and_summarize", o.raised)
          ELSE Value("query_and_summarize",
                     [query |-> query,
                      retrieved_documents |-> RetrievedDocuments(o.value),
                      summary |-> IF summarization_method = "extractive"
                                  THEN PipelineExtractive(CombinedText(o.value), num_sentences)
                                  ELSE PipelineStatistical(CombinedText(o.value), num_sentences),
                      num_retrieved |-> Len(o.value)]) :
          o \in RetrieveOutcomes(TheValue(p), query, top_k)}

\* the outcomes of RAGPipeline.query_and_summarize on a pipeline whose retriever is p
QueryAndSummarizeOutcomes(p, query, top_k, num_sentences, summarization_method) ==
    IF p = None THEN {Raised("query_and_summarize", NotIndexed)}
    ELSE {IF o.raised # "none" THEN Raised("query_and_summarize", o.raised)
          ELSE Value("query_and_summarize",
                     [query |-> query,
                      retrieved_documents |-> RetrievedDocuments(o.value),
                      summary |-> IF summarization_method = "extractive"
                                  THEN PipelineExtractive(CombinedText(o.value), num_sentences)
                                  ELSE PipelineStatistical(CombinedText(o.value), num_sentences),
                      num_retrieved |-> Len(o.value)]) :
          o \in RetrieveOutcomes(TheValue(p), query, top_k)}

\* RAGPipeline.query_and_summarize
query_and_summarize(query, top_k, num_sentences, summarization_method) ==
    /\ result' \in {[o EXCEPT !.args = <<query, top_k, num_sentences, summarization_method>>] :
                        o \in QueryAndSummarizeOutcomes(retriever, query, top_k, num_sentences,
                                                        summarization_method)}
    /\ UNCHANGED <<model_name, model, index, documents, metadata, retriever>>
    /\ UNCHANGED stepVars
    /\ UNCHANGED sumVars

\* a compare_methods that files each family's summary under the other's name
CompareMethodsOutcomesSwapped(p, query, top_k, num_sentences) ==
    IF p = None THEN {Raised("compare_methods", NotIndexed)}
    ELSE {IF o.raised # "none" THEN Raised("compare_methods", o.raised)
          ELSE Value("compare_methods",
                     [query |-> query,
                      retrieved_count |-> Len(o.value),
                      retrieval_scores |-> [x \in 1..Len(o.value) |-> o.value[x].similarity],
                      summaries |-> [extractive |-> PipelineStatistical(CombinedText(o.value), num_sentences),
                                     statistical |-> PipelineExtractive(CombinedText(o.value), num_sentences)],
                      retrieved_documents |-> RetrievedDocuments(o.value)]) :
          o \in RetrieveOutcomes(TheValue(p), query, top_k)}

\* the outcomes of RAGPipeline.compare_methods on a pipeline whose retriever is p
CompareMethodsOutcomes(p, query, top_k, num_sentences) ==
    IF p = None THEN {Raised("compare_methods", NotIndexed)}
    ELSE {IF o.raised # "none" THEN Raised("compare_methods", o.raised)
          ELSE Value("compare_methods",
                     [query |-> query,
                      retrieved_count |-> Len(o.value),
                      retrieval_scores |-> [x \in 1..Len(o.value) |-> o.value[x].similarity],
                      summaries |-> [extractive |-> PipelineExtractive(CombinedText(o.value), num_sentences),
                                     statistical |-> PipelineStatistical(CombinedText(o.value), num_sentences)],
                      retrieved_documents |-> RetrievedDocuments(o.value)]) :
          o \in RetrieveOutcomes(TheValue(p), query, top_k)}

\* RAGPipeline.compare_methods
compare_methods(query, top_k, num_sentences) ==
    /\ result' \in {[o EXCEPT !.args = <<query, top_k, num_sentences>>] :
                        o \in CompareMethodsOutcomes(retriever, query, top_k, num_sentences)}
    /\ UNCHANGED <<model_name, model, index, documents, metadata, retriever>>
    /\ UNCHANGED stepVars
    /\ UNCHANGED sumVars

\* the queries, summary lengths and method names the pipeline is called with
PipelineQueries == Queries \cup {<<>>}

SummaryLengths == {1, 2}

MethodNames == {"extractive", "statistical", "invalid_method"}

DocumentLists == UNION {[1..n -> Corpus] : n \in 0..MaxDocs}

MetadataLists == {None} \cup {Some(m) : m \in UNION {[1..n -> {Meta}] : n \in 0..MaxDocs}}

\* the standalone retriever and the pipeline are separate objects, used one at a time
RetrieverUntouched == index = None /\ documents = <<>> /\ metadata = <<>>

InitRag ==
    /\ SumIdle
    /\ RagIdle

LoadModel == load_model

BuildIndex ==
    /\ retriever = None
    /\ \E docs \in DocumentLists : \E meta \in MetadataLists : build_index(docs, meta)

Retrieve ==
    /\ retriever = None
    /\ \E query \in Queries : \E top_k \in 1..MaxTopK : retrieve(query, top_k)

GetIndexStats ==
    /\ retriever = None
    /\ get_index_stats

IndexDocuments ==
    /\ RetrieverUntouched
    /\ result.op \notin {"query_and_summarize", "compare_methods"}
    /\ \E docs \in DocumentLists : \E meta \in MetadataLists : index_documents(docs, meta)

\* a document of two sentences, and the lists the pipeline indexes it in
Articles == {<<"ai", ".", " ", "ai", " ", "data", ".">>}

ArticleLists == {<<a>> : a \in Articles}

\* index_documents on a list of longer documents
IndexArticles ==
    /\ RetrieverUntouched
    /\ result.op \notin {"query_and_summarize", "compare_methods"}
    /\ \E docs \in ArticleLists : index_documents(docs, None)

\* a query leaves the pipeline as it found it: the pipeline's calls are made from
\* each state the other calls lead to, not from the state a query returned in
QueryOps == {"query_and_summarize", "compare_methods"}

QueryAndSummarize ==
    /\ RetrieverUntouched
    /\ result.op \notin QueryOps
    /\ \E query \in PipelineQueries : \E top_k \in 1..MaxTopK :
         \E num_sentences \in SummaryLengths : \E summarization_method \in MethodNames :
            query_and_summarize(query, top_k, num_sentences, summarization_method)

CompareMethods ==
    /\ RetrieverUntouched
    /\ result.op \notin QueryOps
    /\ \E query \in PipelineQueries : \E top_k \in 1..MaxTopK :
         \E num_sentences \in SummaryLengths : compare_methods(query, top_k, num_sentences)

NextRag ==
    \/ LoadModel
    \/ SetModelName
    \/ BuildIndex
    \/ Retrieve
    \/ GetIndexStats
    \/ IndexDocuments

SpecRag == InitRag /\ [][NextRag]_vars

\* one retriever over a provider whose model name never changes
NextRetr ==
    \/ LoadModel
    \/ BuildIndex
    \/ Retrieve
    \/ GetIndexStats

SpecRetr == InitRag /\ [][NextRetr]_vars

\* the exception of the embedding library when model.encode fails (out of memory,
\* an item that is no text)
EncodeError == "RuntimeError"

\* build_index when self.model.encode raises inside embed_batch: the documents and
\* the metadata were assigned before the call, the index is assigned after it
BuildIndexEncodeRaises(r, docs, meta) ==
    [after |-> [r EXCEPT !.documents = docs,
                         !.metadata = MetadataOrDefault(docs, meta)],
     raised |-> EncodeError]

build_index_encode_raises(docs, meta) ==
    LET o == BuildIndexEncodeRaises(ThisRetriever, docs, meta)
    IN  /\ docs # <<>>
        /\ model # "None"
        /\ index' = o.after.index
        /\ documents' = o.after.documents
        /\ metadata' = o.after.metadata
        /\ result' = [op |-> "build_index", raised |-> o.raised, value |-> <<docs, meta>>,
                       args |-> <<>>]
        /\ UNCHANGED <<model_name, model, retriever>>
        /\ UNCHANGED stepVars
        /\ UNCHANGED sumVars

BuildIndexEncodeFails ==
    /\ retriever = None
    /\ \E docs \in DocumentLists : \E meta \in MetadataLists :
           build_index_encode_raises(docs, meta)

\* builds and rebuilds of one retriever, the embedding step failing or not
NextRebuild ==
    \/ LoadModel
    \/ BuildIndex
    \/ BuildIndexEncodeFails
    \/ GetIndexStats

SpecRebuild == InitRag /\ [][NextRebuild]_vars

\* the embedding provider alone
EmbedText == \E text \in InputTexts : embed_text(text)

EmbedBatch == \E texts \in DocumentLists : embed_batch(texts)

GetEmbeddingDimension == get_embedding_dimension

NextEmb ==
    \/ LoadModel
    \/ SetModelName
    \/ EmbedText
    \/ EmbedBatch
    \/ GetEmbeddingDimension

SpecEmb == InitRag /\ [][NextEmb]_vars

\* the pipeline alone, with the provider it was constructed with
NextPipe ==
    \/ LoadModel
    \/ IndexDocuments
    \/ IndexArticles
    \/ QueryAndSummarize
    \/ CompareMethods

SpecPipe == InitRag /\ [][NextPipe]_vars

----------------------------------------------------------------------------
(* The retriever and the pipeline with two threads: build_index and         *)
(* index_documents run line by line, and between any two of their lines     *)
(* another thread may call retrieve, query_and_summarize or compare_methods. *)
(* A call in progress is at the line pc it executes next; pc = 0 is no call. *)

\* one line of build_index(call.docs, call.meta) on retriever r: the call and the
\* retriever after it, and the exception it raised or "none"; pc = 0 after the
\* last line
BuildIndexStep(call, r) ==
    CASE call.pc = 48 ->
             [call |-> [call EXCEPT !.pc = 49],
              after |-> [r EXCEPT !.documents = call.docs], raised |-> "none"]
      [] call.pc = 49 ->
             [call |-> [call EXCEPT !.pc = 52],
              after |-> [r EXCEPT !.metadata = MetadataOrDefault(call.docs, call.meta)],
              raised |-> "none"]
      [] call.pc = 52 ->
             IF model = "None"
             THEN [call |-> [call EXCEPT !.pc = 0], after |-> r, raised |-> NotReady]
             ELSE [call |-> [call EXCEPT !.pc = 56,
                                         !.embeddings = [x \in 1..Len(call.docs) |-> Encode(call.docs[x])]],
                   after |-> r, raised |-> "none"]
      [] call.pc = 56 ->
             [call |-> [call EXCEPT !.pc = 59],
              after |-> [r EXCEPT !.index = Some([d |-> Len(call.embeddings[1]), xb |-> <<>>])],
              raised |-> "none"]
      [] OTHER ->
             [call |-> [call EXCEPT !.pc = 0],
              after |-> [r EXCEPT !.index = Some(IndexFlatL2(call.embeddings))],
              raised |-> "none"]

\* the metadata the builds of the two-thread runs are given: none, or one dict
ThreadedMetadataLists == {None, Some(<<Meta>>)}

\* build_index(docs, meta) is called on the retriever: lines 42-43
BuildCall ==
    /\ retriever = None
    /\ building.pc = 0
    /\ indexing.pc = 0
    /\ result.op # "retrieve"
    /\ \E docs \in DocumentLists : \E meta \in ThreadedMetadataLists :
          IF docs = <<>>
          THEN /\ result' = [op |-> "build_index", raised |-> EmptyCorpus,
                              value |-> <<docs, meta>>, args |-> <<>>]
               /\ UNCHANGED building
          ELSE /\ building' = [pc |-> 48, docs |-> docs, meta |-> meta, embeddings |-> <<>>,
                                old |-> ThisRetriever]
               /\ UNCHANGED result
    /\ UNCHANGED <<model_name, model, index, documents, metadata, retriever, indexing>>
    /\ UNCHANGED sumVars

\* the build_index call in progress executes its next line
BuildLine ==
    /\ building.pc # 0
    /\ result.op # "retrieve"
    /\ LET o == BuildIndexStep(building, ThisRetriever)
       IN  /\ index' = o.after.index
           /\ documents' = o.after.documents
           /\ metadata' = o.after.metadata
           /\ building' = IF o.call.pc = 0 THEN NoBuild ELSE o.call
           /\ result' = IF o.call.pc = 0
                         THEN [op |-> "build_index", raised |-> o.raised,
                               value |-> <<building.docs, building.meta>>, args |-> <<>>]
                         ELSE result
    /\ UNCHANGED <<model_name, model, retriever, indexing>>
    /\ UNCHANGED sumVars

\* self.retriever made to point at the new retriever before it is built
RetrieverDuringShared(call, current) == Some(call.local)

\* what self.retriever holds while index_documents is in create_retriever: the
\* new retriever is the local variable of create_retriever until line 43
RetrieverDuring(call, current) == current

\* index_documents(docs, meta) is called on the pipeline: create_retriever makes
\* a new VectorRetriever and calls build_index on it, lines 42-43
IndexCall ==
    /\ RetrieverUntouched
    /\ indexing.pc = 0
    /\ building.pc = 0
    /\ result.op \notin QueryOps
    /\ \E docs \in DocumentLists : \E meta \in ThreadedMetadataLists :
          IF docs = <<>>
          THEN /\ result' = [op |-> "index_documents", raised |-> EmptyCorpus,
                              value |-> <<docs, meta>>, args |-> <<>>]
               /\ UNCHANGED <<indexing, retriever>>
          ELSE /\ indexing' = [pc |-> 48, docs |-> docs, meta |-> meta, embeddings |-> <<>>,
                                local |-> NewRetriever, old |-> retriever]
               /\ retriever' = RetrieverDuring(indexing', retriever)
               /\ UNCHANGED result
    /\ UNCHANGED <<model_name, model, index, documents, metadata, building>>
    /\ UNCHANGED sumVars

\* the index_documents call in progress executes its next line: a line of
\* build_index on the new retriever or, with pc = 43, the assignment of line 43
IndexLine ==
    /\ indexing.pc # 0
    /\ result.op \notin QueryOps
    /\ IF indexing.pc = 43
       THEN /\ retriever' = Some(indexing.local)
            /\ indexing' = NoIndexing
            /\ result' = [op |-> "index_documents", raised |-> "none",
                           value |-> <<indexing.docs, indexing.meta>>, args |-> <<>>]
       ELSE LET o == BuildIndexStep(indexing, indexing.local)
            IN  IF o.raised # "none"
                THEN /\ indexing' = NoIndexing
                     /\ retriever' = retriever
                     /\ result' = [op |-> "index_documents", raised |-> o.raised,
                                    value |-> <<indexing.docs, indexing.meta>>, args |-> <<>>]
                ELSE /\ indexing' = [o.call EXCEPT !.local = o.after,
                                                   !.pc = IF o.call.pc = 0 THEN 43 ELSE o.call.pc]
                     /\ retriever' = RetrieverDuring(indexing', retriever)
                     /\ UNCHANGED result
    /\ UNCHANGED <<model_name, model, index, documents, metadata, building>>
    /\ UNCHANGED sumVars

\* the other thread's calls: it asks for as many documents as can be asked for
ThreadedRetrieve ==
    /\ retriever = None
    /\ \E query \in Queries : retrieve(query, MaxTopK)

ThreadedQueryAndSummarize ==
    /\ RetrieverUntouched
    /\ result.op \notin QueryOps
    /\ \E query \in Queries : \E summarization_method \in {"extractive", "statistical"} :
          query_and_summarize(query, MaxTopK, 2, summarization_method)

ThreadedCompareMethods ==
    /\ RetrieverUntouched
    /\ result.op \notin QueryOps
    /\ \E query \in Queries : compare_methods(query, MaxTopK, 2)

NextConc ==
    \/ LoadModel
    \/ BuildCall
    \/ BuildLine
    \/ ThreadedRetrieve
    \/ IndexCall
    \/ IndexLine
    \/ ThreadedQueryAndSummarize
    \/ ThreadedCompareMethods

SpecConc == InitRag /\ [][NextConc]_vars

----------------------------------------------------------------------------
(* The summarizer under test: its construction and the calls made on it. *)

InitSum ==
    /\ doc \in InputTexts
    /\ \/ /\ cls = "StatisticalSummarizer"
          /\ method \in {"tfidf", "frequency"}
          /\ stop_words = EnglishStopWords
          /\ algorithm = "none"
       \/ /\ cls = "ExtractiveSummarizer"
          /\ algorithm = "textrank"
          /\ method = "none"
          /\ stop_words = {}
    /\ last = NoCall
    /\ prev = NoCall
    /\ batch = NoBatch
    /\ RagIdle

\* the document is summarized
Summarize ==
    /\ batch = NoBatch
    /\ \E k \in 1..MaxK : StatSummarizeCall(doc, k) \/ ExtSummarizeCall(doc, k)

\* after a summary of the document was kept, another text is summarized
SummarizeOther ==
    /\ batch = NoBatch
    /\ prev.k > 0
    /\ \/ StatSummarizeCall(OtherText(doc), prev.k)
       \/ ExtSummarizeCall(OtherText(doc), prev.k)

\* the summary that was just kept is summarized again
SummarizeAgain ==
    /\ batch = NoBatch
    /\ last.k > 0
    /\ prev = last
    /\ StatSummarizeCall(last.out, last.k) \/ ExtSummarizeCall(last.out, last.k)

\* the two texts that were summarized one by one are summarized as a batch
SummarizeBatch ==
    /\ batch = NoBatch
    /\ prev.k > 0
    /\ last.k = prev.k
    /\ last.input = OtherText(doc)
    /\ \E texts \in BatchLists(last.input, prev.input) : SummarizeBatchCall(texts, last.k)

NextSum ==
    \/ Summarize
    \/ SummarizeOther
    \/ SummarizeAgain
    \/ Remember
    \/ SummarizeBatch

SpecSum == InitSum /\ [][NextSum]_vars

----------------------------------------------------------------------------
(* The construction of a summarizer, from the name of the sub-method it is *)
(* to use, and the summaries of the summarizer constructed.                *)

\* str.lower() on the names the constructors are called with
Lower(name) ==
    CASE name = "TFIDF" -> "tfidf"
      [] name = "TextRank" -> "textrank"
      [] OTHER -> name

\* get_available_methods() and get_available_algorithms()
AvailableMethods == {"tfidf", "frequency"}

AvailableAlgorithms == {"textrank", "lexrank", "luhn"}

\* the names the constructors are called with
MethodArguments == AvailableMethods \cup {"TFIDF", "bm25"}

AlgorithmArguments == AvailableAlgorithms \cup {"TextRank", "lsa"}

UnknownAlgorithm == "ValueError: Unknown algorithm"

\* StatisticalSummarizer.__init__: the fields it sets and the exception it raises
StatisticalInit(m) ==
    [method |-> Lower(m), stop_words |-> EnglishStopWords, raised |-> "none"]

\* ExtractiveSummarizer.__init__ with _get_summarizer
ExtractiveInit(a) ==
    [algorithm |-> Lower(a),
     raised |-> IF Lower(a) \in AvailableAlgorithms THEN "none" ELSE UnknownAlgorithm]

\* StatisticalSummarizer(method)
NewStatisticalSummarizer ==
    /\ cls = "none"
    /\ \E m \in MethodArguments :
          LET o == StatisticalInit(m)
          IN  /\ cls' = IF o.raised = "none" THEN "StatisticalSummarizer" ELSE cls
              /\ method' = IF o.raised = "none" THEN o.method ELSE method
              /\ stop_words' = IF o.raised = "none" THEN o.stop_words ELSE stop_words
              /\ result' = [op |-> "StatisticalSummarizer", raised |-> o.raised,
                             value |-> <<>>, args |-> <<m>>]
    /\ UNCHANGED <<doc, algorithm, last, prev, batch>>
    /\ UNCHANGED <<model_name, model, index, documents, metadata, retriever>>
    /\ UNCHANGED stepVars

\* ExtractiveSummarizer(algorithm)
NewExtractiveSummarizer ==
    /\ cls = "none"
    /\ \E a \in AlgorithmArguments :
          LET o == ExtractiveInit(a)
          IN  /\ cls' = IF o.raised = "none" THEN "ExtractiveSummarizer" ELSE cls
              /\ algorithm' = IF o.raised = "none" THEN o.algorithm ELSE algorithm
              /\ result' = [op |-> "ExtractiveSummarizer", raised |-> o.raised,
                             value |-> <<>>, args |-> <<a>>]
    /\ UNCHANGED <<doc, method, stop_words, last, prev, batch>>
    /\ UNCHANGED <<model_name, model, index, documents, metadata, retriever>>
    /\ UNCHANGED stepVars

InitNew ==
    /\ doc \in InputTexts
    /\ cls = "none"
    /\ method = "none"
    /\ stop_words = {}
    /\ algorithm = "none"
    /\ last = NoCall
    /\ prev = NoCall
    /\ batch = NoBatch
    /\ RagIdle

NextNew ==
    \/ NewStatisticalSummarizer
    \/ NewExtractiveSummarizer
    \/ Summarize

SpecNew == InitNew /\ [][NextNew]_vars

----------------------------------------------------------------------------
(* Properties of the summarizers. *)

\* what a caller sees as the sentences of a text
SentencesOf(text) == sent_tokenize(_preprocess_text(text))

RECURSIVE SplitOnWhitespace(_, _)
\* text.split(): the maximal runs of non-whitespace tokens
SplitOnWhitespace(t, cur) ==
    IF t = <<>> THEN (IF cur = <<>> THEN <<>> ELSE <<cur>>)
    ELSE IF Head(t) \in Whitespace
         THEN (IF cur = <<>> THEN <<>> ELSE <<cur>>) \o SplitOnWhitespace(Tail(t), <<>>)
         ELSE SplitOnWhitespace(Tail(t), cur \o <<Head(t)>>)

\* the whitespace-normalised form of a text: " ".join(text.split())
WhitespaceNormalized(text) == Flatten(SplitOnWhitespace(text, <<>>), <<" ">>)

StrictlyAscending(s) == \A x, y \in 1..Len(s) : x < y => s[x] < s[y]

\* the sentences of c.out are the sentences of c.input at the indices c.top
EmitsTop(c) ==
    LET src == SentencesOf(c.input)
        res == SentencesOf(c.out)
    IN  /\ Len(res) = Len(c.top)
        /\ \A x \in 1..Len(c.top) : c.top[x] \in 1..Len(src) /\ res[x] = src[c.top[x]]

Calls == {c \in {last, prev} : c.k > 0}

\* the scores the statistical summarizer gives the sentences of a text
ScoresOf(text) ==
    LET t == _preprocess_text(text)
    IN  IF method = "tfidf" THEN _calculate_sentence_scores_tfidf(sent_tokenize(t))
        ELSE _calculate_sentence_scores_frequency(stop_words, t, sent_tokenize(t))

\* C1: the sentences of every summary are sentences of the source document in
\* strictly ascending source position, whatever their score order.
C1_SourceOrderPreserved ==
    \A c \in Calls : c.raised = "none" => EmitsTop(c) /\ StrictlyAscending(c.top)

\* a summary of two or more ranked sentences whose score order is not their
\* source order
C1_Witness ==
    /\ cls = "StatisticalSummarizer"
    /\ last.ranked
    /\ Len(last.top) >= 2
    /\ Take(SortedByScore(ScoresOf(last.input), Len(SentencesOf(last.input))), last.k) # last.top

C3_BlankTextRaises ==
    \A c \in Calls : IsBlank(c.input) => c.raised = "ValueError"

\* C4: with 1 <= num_sentences < n the summary is exactly num_sentences distinct
\* sentences of the source, each verbatim.
C4_ExactlyKSourceSentences ==
    \A c \in Calls :
        c.k < Len(SentencesOf(c.input)) =>
            /\ c.raised = "none"
            /\ Len(SentencesOf(c.out)) = c.k
            /\ EmitsTop(c)
            /\ \A x, y \in 1..Len(c.top) : x # y => c.top[x] # c.top[y]

\* two of three sentences were chosen
C4_Witness ==
    /\ last.k = 2
    /\ Len(SentencesOf(last.input)) = 3
    /\ last.ranked
    /\ Len(SentencesOf(last.out)) = 2

\* C5: on one document a larger num_sentences never gives a summary of fewer
\* sentences.
C5_MonotoneInNumSentences ==
    \A c1, c2 \in Calls :
        c1.input = c2.input /\ c1.k <= c2.k =>
            Len(SentencesOf(c1.out)) <= Len(SentencesOf(c2.out))

\* the same document summarized with a smaller and a larger num_sentences, the
\* second summary being longer
C5_Witness ==
    /\ prev.k > 0 /\ prev.input = last.input /\ prev.k < last.k
    /\ prev.ranked
    /\ Len(SentencesOf(prev.out)) < Len(SentencesOf(last.out))

C7_BatchIsElementwise ==
    batch.k > 0 =>
        /\ Len(batch.outs) = Len(batch.texts)
        /\ \A i \in 1..Len(batch.texts) : \A c \in Calls :
               (i <= Len(batch.outs) /\ c.k = batch.k /\ c.input = batch.texts[i])
                   => batch.outs[i] = c.out

\* a batch of two different texts with different summaries, each text also
\* summarized alone, with its sentences ranked
C7_Witness ==
    /\ cls = "StatisticalSummarizer"
    /\ batch.k > 0
    /\ Len(batch.texts) = 3
    /\ batch.texts[1] # batch.texts[2]
    /\ batch.outs[1] # batch.outs[2]
    /\ batch.outs[1] = batch.outs[3]
    /\ prev.ranked /\ last.ranked
    /\ \A i \in 1..3 : \E c \in Calls : c.k = batch.k /\ c.input = batch.texts[i]

----------------------------------------------------------------------------
(* Properties of the retriever and the pipeline. *)

\* C8: build_index([]) and index_documents([]) raise the empty-corpus ValueError
\* and leave the retriever's index, documents and metadata and the pipeline's
\* retriever as they were.
C8_EmptyCorpusChangesNothing ==
    [][ (result'.op \in {"build_index", "index_documents"} /\ result'.value[1] = <<>>) =>
            /\ result'.raised = EmptyCorpus
            /\ UNCHANGED <<index, documents, metadata, retriever>>
      ]_vars

\* build_index([]) was called on a retriever that holds a built index
C8_Witness ==
    /\ result.op = "build_index"
    /\ result.value[1] = <<>>
    /\ result.raised = EmptyCorpus
    /\ index # None
    /\ documents # <<>>

\* C9: the index is set by a completed build_index only, and retrieve on a
\* retriever without one raises the not-built ValueError and leaves the retriever
\* as it was.
C9_RetrieveBeforeBuildRaises ==
    [][ /\ index' # index => (result'.op = "build_index" /\ result'.raised = "none")
        /\ (result'.op = "retrieve" /\ index = None) =>
               /\ result'.raised = NotBuilt
               /\ UNCHANGED <<index, documents, metadata>>
      ]_vars

\* retrieve raised on a retriever whose only build failed, with the model loaded since
C9_Witness ==
    /\ result.op = "retrieve"
    /\ result.raised = NotBuilt
    /\ index = None
    /\ documents # <<>>
    /\ model # "None"

\* C10: whenever the index is built, it holds as many vectors as there are stored
\* documents and stored metadata entries, and get_index_stats reports "ready" with
\* num_documents = num_vectors = the length of the last build's document list.
C10_CountsAgree ==
    index # None =>
        LET stats == IndexStats(ThisRetriever)
        IN  /\ Len(TheValue(index).xb) = Len(documents)
            /\ Len(metadata) = Len(documents)
            /\ stats.status = "ready"
            /\ stats.num_documents = stats.num_vectors
            /\ (result.op = "build_index" /\ result.raised = "none")
                   => stats.num_documents = Len(result.value[1])

\* C11: once the index is built its dimension never changes: a build_index whose
\* embeddings have another dimension than the index is rejected and leaves the
\* index's dimension as the first build set it.
C11_DimensionIsFixed ==
    [][ (index # None /\ index' # None) => TheValue(index').d = TheValue(index).d ]_vars

\* C12: retrieve(query, top_k) on a built index of n documents returns exactly
\* min(top_k, n) results.
C12_ReturnsMinTopKAndSize ==
    [][ (result'.op = "retrieve" /\ index # None) =>
            /\ result'.raised = "none"
            /\ Len(result'.value) = IF result'.args[2] < Len(documents)
                                    THEN result'.args[2] ELSE Len(documents)
      ]_vars

\* the fraction a is at least the fraction b
FractionGE(a, b) == a[1] * b[2] >= b[1] * a[2]

\* C13: every list retrieve returns is sorted by non-increasing similarity, and
\* every similarity in it is greater than 0 and at most 1.
C13_SortedBySimilarity ==
    (result.op = "retrieve" /\ result.raised = "none") =>
        /\ \A x, y \in 1..Len(result.value) :
               x < y => FractionGE(result.value[x].similarity, result.value[y].similarity)
        /\ \A x \in 1..Len(result.value) :
               /\ result.value[x].similarity[1] > 0
               /\ result.value[x].similarity[1] <= result.value[x].similarity[2]

\* retrieve returned two documents, the first an exact match and the second not
C13_Witness ==
    /\ result.op = "retrieve"
    /\ result.raised = "none"
    /\ Len(result.value) = 2
    /\ result.value[1].similarity = <<1, 1>>
    /\ ~FractionGE(result.value[2].similarity, result.value[1].similarity)

\* the k nearest labels ordered by (distance ascending, insertion position ascending)
InsertionOrderLabels(ix, q, k) ==
    CHOOSE lab \in SearchLabels(ix, q, k) :
        /\ \A x, y \in 1..k :
               (x < y /\ lab[x] # -1 /\ lab[y] # -1 /\ L2(ix.xb[lab[x]], q) = L2(ix.xb[lab[y]], q))
                   => lab[x] < lab[y]
        /\ \A x \in 1..k : \A j \in 1..Len(ix.xb) :
               (lab[x] # -1 /\ j \notin {lab[y] : y \in 1..k} /\ L2(ix.xb[j], q) = L2(ix.xb[lab[x]], q))
                   => lab[x] < j

\* C14: the list retrieve returns is the one ordered by similarity descending and,
\* among documents at equal distance from the query, by insertion position ascending.
C14_TiesInInsertionOrder ==
    [][ (result'.op = "retrieve" /\ result'.raised = "none") =>
            LET k == IF result'.args[2] < Len(documents) THEN result'.args[2] ELSE Len(documents)
                q == Encode(result'.args[1])
            IN  result'.value =
                    RetrieveOutcome(ThisRetriever, result'.args[1],
                                    InsertionOrderLabels(TheValue(index), q, k)).value
      ]_vars

----------------------------------------------------------------------------
(* Properties of the pipeline. *)

\* C17: the pipeline starts without a retriever (Unindexed), gets one (Indexed)
\* exactly in an index_documents call that succeeds, and no call takes it away.
C17_IndexedIsOneWay ==
    /\ retriever = None
    /\ [][ /\ retriever # None => retriever' # None
           /\ (retriever = None /\ retriever' # None) =>
                  (result'.op = "index_documents" /\ result'.raised = "none")
           /\ (result'.op = "index_documents" /\ result'.raised = "none") => retriever' # None
         ]_vars

\* index_documents failed on a pipeline that had a retriever, and the pipeline
\* still has it
C17_Witness ==
    /\ result.op = "index_documents"
    /\ result.raised = EmptyCorpus
    /\ retriever # None

\* C18: query_and_summarize on a pipeline without a retriever raises the
\* not-indexed ValueError, whatever its arguments, returns nothing and leaves
\* the pipeline as it was.
C18_QueryBeforeIndexRaises ==
    [][ (result'.op = "query_and_summarize" /\ retriever = None) =>
            /\ result'.raised = NotIndexed
            /\ result'.value = <<>>
            /\ UNCHANGED <<model_name, model, retriever>>
      ]_vars

\* query_and_summarize raised on a pipeline whose provider is loaded but which
\* was never indexed, for a well-formed query and a registered method
C18_Witness ==
    /\ result.op = "query_and_summarize"
    /\ result.raised = NotIndexed
    /\ retriever = None
    /\ model # "None"
    /\ result.args = <<<<"ai", " ", "data">>, 2, 2, "statistical">>

\* the number of characters of a text
Characters(text) ==
    SeqSum([x \in 1..Len(text) |->
               CASE text[x] = "ai" -> 2
                 [] text[x] = "data" -> 4
                 [] text[x] = "the" -> 3
                 [] OTHER -> 1])

\* C19: on a pipeline that has a retriever, query_and_summarize raises for a query
\* of fewer than 3 characters, the empty query among them, and returns no result.
C19_ShortQueryRaises ==
    [][ (result'.op = "query_and_summarize" /\ retriever # None
         /\ Characters(result'.args[1]) < 3) =>
            /\ result'.raised # "none"
            /\ result'.value = <<>>
      ]_vars

\* C20: on a pipeline that has a retriever, query_and_summarize raises for a method
\* name that is neither "extractive" nor "statistical".
C20_UnknownMethodRaises ==
    [][ (result'.op = "query_and_summarize" /\ retriever # None
         /\ result'.args[4] \notin {"extractive", "statistical"}) =>
            result'.raised # "none"
      ]_vars

----------------------------------------------------------------------------
(* Properties of the retriever and the pipeline with two threads. *)

\* C15: a retrieve made while build_index is rebuilding a built retriever reads
\* documents, metadata and index that are all the old build's or all the new
\* build's.
C15_RebuildNeverSeenPartial ==
    [][ (result'.op = "retrieve" /\ building' = building /\ building.pc # 0
         /\ building.old.index # None) =>
            ThisRetriever \in {building.old,
                               BuildIndexOutcome(building.old, building.docs, building.meta).after}
      ]_vars

\* the retriever is complete: it has an index that holds the vectors of its documents
Complete(r) ==
    /\ r.index # None
    /\ TheValue(r.index).xb = [x \in 1..Len(r.documents) |-> Encode(r.documents[x])]

\* C16: a query_and_summarize or compare_methods made while index_documents is
\* running again on a pipeline that has a retriever uses the old retriever, and
\* the retriever a query uses is complete always.
C16_ReindexIsAtomic ==
    [][ (result'.op \in QueryOps /\ indexing' = indexing /\ retriever # None) =>
            /\ Complete(TheValue(retriever))
            /\ (indexing.pc # 0 /\ indexing.old # None) => retriever = indexing.old
      ]_vars

\* a query was answered from the old retriever while index_documents was building
\* the new one from other documents and had stored them but built no index yet
C16_Witness ==
    /\ result.op = "query_and_summarize"
    /\ result.raised = "none"
    /\ indexing.pc = 52
    /\ indexing.old # None
    /\ retriever = indexing.old
    /\ indexing.local.documents # TheValue(retriever).documents
    /\ indexing.local.index = None

----------------------------------------------------------------------------
(* Properties of the construction of a summarizer. *)

\* C21: a summarizer constructed with a sub-method name that is not one of its
\* family's raises, for both families, and no summarizer with that name exists.
C21_UnknownSubMethodRejected ==
    /\ (result.op = "ExtractiveSummarizer" /\ Lower(result.args[1]) \notin AvailableAlgorithms)
           => (result.raised # "none" /\ cls = "none")
    /\ (result.op = "StatisticalSummarizer" /\ Lower(result.args[1]) \notin AvailableMethods)
           => (result.raised # "none" /\ cls = "none")

----------------------------------------------------------------------------
(* Properties of the results of the pipeline. *)

C28_SummaryOfJoinedTexts ==
    [][ (result'.op = "query_and_summarize" /\ result'.raised = "none"
         /\ Characters(result'.args[1]) >= 3
         /\ result'.args[4] \in {"extractive", "statistical"}) =>
            LET v == result'.value
                joined == JoinSpace([x \in 1..Len(v.retrieved_documents) |->
                                        v.retrieved_documents[x].text])
            IN  /\ \A x, y \in 1..Len(v.retrieved_documents) :
                       x < y => FractionGE(v.retrieved_documents[x].similarity,
                                           v.retrieved_documents[y].similarity)
                /\ v.summary =
                       IF result'.args[4] = "extractive"
                       THEN ExtractiveSummarize("textrank", joined, result'.args[3]).out
                       ELSE StatisticalSummarize("tfidf", EnglishStopWords, joined, result'.args[3]).out
      ]_vars

\* a one-sentence statistical summary of two different retrieved documents
C28_Witness ==
    /\ result.op = "query_and_summarize"
    /\ result.raised = "none"
    /\ result.args = <<<<"ai", " ", "data">>, 2, 1, "statistical">>
    /\ result.value.num_retrieved = 2
    /\ result.value.retrieved_documents[1].text # result.value.retrieved_documents[2].text
    /\ result.value.summary = result.value.retrieved_documents[1].text

----------------------------------------------------------------------------
(* Properties of the embedding provider. *)

ProviderOps == {"embed_text", "embed_batch", "get_embedding_dimension"}

C25_EmptyTextRaises ==
    [][ (result'.op = "embed_text" /\ model # "None" /\ result'.args[1] = <<>>) =>
            (result'.raised # "none" /\ result'.value = <<>>)
      ]_vars

\* C26: a load_model call on a provider that has a model loaded loads nothing
\* and leaves the provider's model as it is.
C26_LoadIsOneTime ==
    [][ (result'.op = "load_model" /\ model # "None") =>
            (result'.value = <<>> /\ model' = model)
      ]_vars

----------------------------------------------------------------------------
(* Properties of the statistical summarizer's choice of sentences. *)

\* C27: when the statistical summarizer ranks a document of more than k sentences
\* it chooses exactly k sentence indices, no sentence left out has a higher score
\* than a chosen one, and of two sentences of equal score of which one is chosen
\* and one left out, the chosen one is the earlier.
C27_HighestScoresChosen ==
    \A c \in Calls :
        (cls = "StatisticalSummarizer" /\ c.ranked) =>
            LET scores == ScoresOf(c.input)
                chosen == Range(c.top)
            IN  /\ Len(scores) > c.k
                /\ Cardinality(chosen) = c.k
                /\ chosen \subseteq 1..Len(scores)
                /\ \A i \in chosen : \A j \in (1..Len(scores)) \ chosen :
                       /\ ~ScoreGT(scores[j], scores[i])
                       /\ ScoreEQ(scores[j], scores[i]) => i < j

\* two sentences chosen of three: the third for its higher score, and the first
\* before the second, which has the same score
C27_Witness ==
    /\ cls = "StatisticalSummarizer"
    /\ last.ranked
    /\ last.k = 2
    /\ last.top = <<1, 3>>
    /\ ScoreEQ(ScoresOf(last.input)[1], ScoresOf(last.input)[2])
    /\ ScoreGT(ScoresOf(last.input)[3], ScoresOf(last.input)[1])

----------------------------------------------------------------------------
(* Frame properties of the retriever. *)

\* C29: a retrieve call, whether it returns or raises, leaves the retriever's
\* index, documents and metadata as they were, and with them what get_index_stats
\* reports and what a retrieve with the same arguments can return.
C29_RetrieveMutatesNothing ==
    [][ result'.op = "retrieve" =>
            /\ UNCHANGED <<index, documents, metadata>>
            /\ IndexStats(ThisRetriever)' = IndexStats(ThisRetriever)
            /\ \A query \in Queries : \A top_k \in 1..MaxTopK :
                   result'.args = <<query, top_k>> =>
                       RetrieveOutcomes(ThisRetriever, query, top_k)' =
                           RetrieveOutcomes(ThisRetriever, query, top_k)
      ]_vars

\* a retrieve returned two documents from a built index
C29_Witness ==
    /\ result.op = "retrieve"
    /\ result.raised = "none"
    /\ Len(result.value) = 2
    /\ index # None
    /\ Len(TheValue(index).xb) = 2

\* C30: a rebuild that raises leaves the retriever as the last successful build
\* made it: index, documents and metadata are what they were before the call.
C30_FailedRebuildKeepsOldState ==
    [][ (index # None /\ result'.op = "build_index" /\ result'.raised # "none") =>
            UNCHANGED <<index, documents, metadata>>
      ]_vars

====
